---- MODULE Spec2Model ----
(***************************************************************************)
(* Model of DataFrameUpdater.compare_and_update_dataframe (src/data.py),   *)
(* of FTPtoSMBTransfer.transfer_files (src/e.py) and of                    *)
(* find_duplicate_files / delete_duplicate_files (src/hash.py).  The three *)
(* programs share nothing; each has its own variables and specification    *)
(* (Spec and SpecRank, SpecTransfer, SpecDedup), the variables of the      *)
(* other two resting at their idle values.                                 *)
(*                                                                         *)
(* A DataFrame is a record [cols, rows]: cols is the ordered sequence of   *)
(* column names, rows the ordered sequence of records, each a function     *)
(* from the column names to cell values.  One call of the method is        *)
(* followed statement by statement; pc is the position in the method.      *)
(*                                                                         *)
(* The category strings of the source are Cyrillic; they are written here  *)
(* transliterated, as sequences of characters, so that str.lower() is      *)
(* computed character by character.                                        *)
(***************************************************************************)
EXTENDS Integers, Sequences, FiniteSets, TLC

VARIABLES
    df1,          \* the caller's target object (argument df1)
    df2,          \* the caller's source object (argument df2)
    same,         \* TRUE when the caller passed one object as df1 and as df2
    pc,           \* position in compare_and_update_dataframe
    merged,       \* local: result of pd.merge
    df1_updated,  \* local: result of merged.apply(update_row, axis=1)
    result,       \* the returned DataFrame (meaningful when returned)
    returned,     \* TRUE once the method returned a value
    raised,       \* "none", or the exception that left the method
    df1_entry,    \* df1 as it was when the call started
    df2_entry     \* df2 as it was when the call started

vars == <<df1, df2, same, pc, merged, df1_updated, result, returned, raised,
          df1_entry, df2_entry>>

\* src/e.py, FTPtoSMBTransfer
VARIABLES
    tpc,                        \* position in transfer_files
    delete_ftp_after_transfer,  \* self.delete_ftp_after_transfer
    ftp,                        \* self.ftp: "none", "open" or "closed"
    conn,                       \* self.conn: "none", "created", "connected"
                                \* or "closed"
    files,                      \* local: the list ftp.nlst() returned
    file_idx,                   \* local: index of filename in files
    server_listing,             \* the FTP directory as it was at the start
    ftp_files,                  \* the files now on the FTP server
    downloaded,                 \* files whose download succeeded
    smb_files,                  \* files stored on the SMB share
    upload_failed,              \* files whose upload failed
    quit_calls,                 \* number of calls of self.ftp.quit()
    close_calls                 \* number of calls of self.conn.close()

transferVars == <<tpc, delete_ftp_after_transfer, ftp, conn, files, file_idx,
                  server_listing, ftp_files, downloaded, smb_files,
                  upload_failed, quit_calls, close_calls>>

\* src/hash.py
VARIABLES
    hpc,           \* position in the __main__ block of hash.py
    content,       \* the content of every path under root_dir
    on_disk,       \* the paths that exist
    file_hashes,   \* dict: hash -> list of paths
    hash_order,    \* the keys of file_hashes in insertion order
    walk_idx,      \* find_duplicate_files: index of the file being hashed
    group_idx,     \* delete_duplicate_files: index of the dict item
    dup_idx,       \* delete_duplicate_files: index in filepaths[1:]
    remove_failed  \* the paths whose os.remove raised

dedupVars == <<hpc, content, on_disk, file_hashes, hash_order, walk_idx,
               group_idx, dup_idx, remove_failed>>

\* transfer_files is not running
TransferIdle ==
    /\ tpc = "idle"
    /\ delete_ftp_after_transfer = FALSE
    /\ ftp = "none"
    /\ conn = "none"
    /\ files = <<>>
    /\ file_idx = 0
    /\ server_listing = <<>>
    /\ ftp_files = {}
    /\ downloaded = {}
    /\ smb_files = {}
    /\ upload_failed = {}
    /\ quit_calls = 0
    /\ close_calls = 0

\* hash.py is not running
DedupIdle ==
    /\ hpc = "idle"
    /\ content = <<>>
    /\ on_disk = {}
    /\ file_hashes = <<>>
    /\ hash_order = <<>>
    /\ walk_idx = 0
    /\ group_idx = 0
    /\ dup_idx = 0
    /\ remove_failed = {}

-----------------------------------------------------------------------------
(* Bounds of the explored inputs *)

MaxTargetRows == 2
MaxSourceRows == 2

-----------------------------------------------------------------------------
(* Configuration of the updater: DataFrameUpdater('ip', 'computer_name',   *)
(* <value column>) with the default priority map.                          *)

ip_col == "ip"
computer_name_col == "computer_name"
value_col == "value"

vazhno == <<"v", "a", "z", "h", "n", "o">>
ochen_vazhno == <<"o", "c", "h", "e", "n", " ", "v", "a", "z", "h", "n", "o">>
sredne == <<"s", "r", "e", "d", "n", "e">>
ne_ochen == <<"n", "e", " ", "o", "c", "h", "e", "n">>
pusto == <<"p", "u", "s", "t", "o">>

PRIORITY_MAP ==
    (vazhno :> 5) @@ (ochen_vazhno :> 4) @@ (sredne :> 3) @@ (ne_ochen :> 2)
    @@ (pusto :> 1)

priority_map == PRIORITY_MAP

-----------------------------------------------------------------------------
(* Strings *)

Uppers == <<"A", "B", "C", "D", "E", "F", "G", "H", "I", "J", "K", "L", "M",
            "N", "O", "P", "Q", "R", "S", "T", "U", "V", "W", "X", "Y", "Z">>
Lowers == <<"a", "b", "c", "d", "e", "f", "g", "h", "i", "j", "k", "l", "m",
            "n", "o", "p", "q", "r", "s", "t", "u", "v", "w", "x", "y", "z">>

\* one character of str.lower()
lower_char(c) ==
    IF \E i \in 1..Len(Uppers) : Uppers[i] = c
    THEN Lowers[CHOOSE i \in 1..Len(Uppers) : Uppers[i] = c]
    ELSE c

\* str(value).lower(): value is a string already, every character is lowered
str_lower(value) == [i \in 1..Len(value) |-> lower_char(value[i])]

\* fault variant: an unmapped value gets the lowest mapped rank
get_priority_default_one(value) ==
    LET v == str_lower(value)
    IN  IF v \in DOMAIN priority_map THEN priority_map[v] ELSE 1

\* fault variant: the value is looked up as written, without lower()
get_priority_no_lower(value) ==
    IF value \in DOMAIN priority_map THEN priority_map[value] ELSE 0

\* get_priority: self.priority_map.get(str(value).lower(), 0)
get_priority(value) ==
    LET v == str_lower(value)
    IN  IF v \in DOMAIN priority_map THEN priority_map[v] ELSE 0

-----------------------------------------------------------------------------
(* DataFrames *)

Range(s) == {s[i] : i \in 1..Len(s)}

HasCol(df, c) == c \in Range(df.cols)

NoFrame == [cols |-> <<>>, rows |-> <<>>]

NaN == "NaN"

\* fault variant: the check looks at df1 only
required_present_df1_only(d1, d2) ==
    \A col \in {ip_col, computer_name_col, value_col} : HasCol(d1, col)

\* all(col in df1.columns and col in df2.columns for col in [ip, name, value])
required_present(d1, d2) ==
    \A col \in {ip_col, computer_name_col, value_col} :
        HasCol(d1, col) /\ HasCol(d2, col)

\* df['priority'] = df[value_col].apply(get_priority): the column is appended
\* when new, overwritten in place when it exists
set_priority(df) ==
    [cols |-> IF HasCol(df, "priority") THEN df.cols
              ELSE Append(df.cols, "priority"),
     rows |-> [i \in 1..Len(df.rows) |->
                 ("priority" :> get_priority(df.rows[i][value_col]))
                 @@ df.rows[i]]]

\* KeyError of df[value_col] when the column does not exist
set_priority_raises(df) == ~HasCol(df, value_col)

-----------------------------------------------------------------------------
(* pd.merge(df1, df2, on=[ip, name], how='left', suffixes=('', '_df2'),    *)
(*          indicator=True)                                                *)

on_cols == {ip_col, computer_name_col}

\* the columns of the right frame that are not join keys, in order
right_cols(d2) == SelectSeq(d2.cols, LAMBDA c : c \notin on_cols)

\* suffixes=('', '_df2'): a right column gets the suffix only when the left
\* frame has a column of the same name
right_name(d1, c) == IF HasCol(d1, c) THEN c \o "_df2" ELSE c

merge_cols(d1, d2) ==
    LET rc == right_cols(d2)
    IN  d1.cols \o [i \in 1..Len(rc) |-> right_name(d1, rc[i])] \o <<"_merge">>

\* the right frame's rows with the key of the left row l, in right order
key_matches(l, d2) ==
    SelectSeq(d2.rows, LAMBDA r : \A k \in on_cols : r[k] = l[k])

\* a left row joined with a right row
both_row(d1, d2, l, r) ==
    LET rc == Range(right_cols(d2))
    IN  l @@ ("_merge" :> "both")
          @@ [c \in {right_name(d1, k) : k \in rc} |->
                r[CHOOSE k \in rc : right_name(d1, k) = c]]

\* a left row without partner: the right columns are NaN
left_only_row(d1, d2, l) ==
    LET rc == Range(right_cols(d2))
    IN  l @@ ("_merge" :> "left_only")
          @@ [c \in {right_name(d1, k) : k \in rc} |-> NaN]

\* fault variant: how='inner', a left row without partner is dropped
rows_of_inner(d1, d2, l) ==
    LET m == key_matches(l, d2)
    IN  [j \in 1..Len(m) |-> both_row(d1, d2, l, m[j])]

\* the rows a left row contributes: one per partner, or one left_only row
rows_of(d1, d2, l) ==
    LET m == key_matches(l, d2)
    IN  IF m = <<>> THEN <<left_only_row(d1, d2, l)>>
        ELSE [j \in 1..Len(m) |-> both_row(d1, d2, l, m[j])]

RECURSIVE merge_rows(_, _, _)
\* left join: left order kept, partners in right order
merge_rows(d1, d2, i) ==
    IF i > Len(d1.rows) THEN <<>>
    ELSE rows_of(d1, d2, d1.rows[i]) \o merge_rows(d1, d2, i + 1)

merge(d1, d2) == [cols |-> merge_cols(d1, d2), rows |-> merge_rows(d1, d2, 1)]

\* KeyError of pd.merge when a key column is missing on either side
merge_raises(d1, d2) == \E k \in on_cols : ~HasCol(d1, k) \/ ~HasCol(d2, k)

-----------------------------------------------------------------------------
(* update_row and merged.apply(update_row, axis=1)                         *)

\* fault variant: the value column is skipped as well
skipped_cols_with_value == {ip_col, computer_name_col, value_col, "priority"}

\* the columns update_row does not copy
skipped_cols == {ip_col, computer_name_col, "priority"}

\* fault variant: <= in place of <
source_wins_or_ties(row) == row["priority"] <= row["priority_df2"]

\* row['priority'] < row['priority_df2']
source_wins(row) == row["priority"] < row["priority_df2"]

RECURSIVE copy_cols(_, _, _)
\* for col in df2.columns: row[col] = row[f'{col}_df2'] unless col is skipped;
\* reading a label the row does not have is a KeyError
copy_cols(row, cols, i) ==
    IF i > Len(cols) THEN [err |-> FALSE, row |-> row]
    ELSE LET col == cols[i]
         IN  IF col \in skipped_cols THEN copy_cols(row, cols, i + 1)
             ELSE IF (col \o "_df2") \notin DOMAIN row
                  THEN [err |-> TRUE, row |-> row]
                  ELSE copy_cols((col :> row[col \o "_df2"]) @@ row, cols, i + 1)

update_row(row, d2cols) ==
    IF row["_merge"] = "both"
    THEN IF source_wins(row) THEN copy_cols(row, d2cols, 1)
         ELSE [err |-> FALSE, row |-> row]
    ELSE [err |-> FALSE, row |-> row]

\* merged.apply(update_row, axis=1); an empty frame is returned as a copy
apply_rows(m, d2cols) == [i \in 1..Len(m.rows) |-> update_row(m.rows[i], d2cols)]

apply_raises(m, d2cols) ==
    \E i \in 1..Len(m.rows) : apply_rows(m, d2cols)[i].err

apply_update(m, d2cols) ==
    [cols |-> m.cols,
     rows |-> [i \in 1..Len(m.rows) |-> apply_rows(m, d2cols)[i].row]]

-----------------------------------------------------------------------------
(* drop and projection                                                     *)

select_cols(df, cs) ==
    [cols |-> cs,
     rows |-> [i \in 1..Len(df.rows) |-> [c \in Range(cs) |-> df.rows[i][c]]]]

\* df.drop(columns=names, errors='ignore')
drop(df, names) == select_cols(df, SelectSeq(df.cols, LAMBDA c : c \notin names))

working_cols == {"priority", "priority_df2", "_merge"}

\* [col for col in df1.columns if col in df1_updated.columns]
existing_cols(d1, upd) == SelectSeq(d1.cols, LAMBDA c : HasCol(upd, c))

-----------------------------------------------------------------------------
(* The inputs explored: the frames the caller builds and passes in.        *)
(* Their column names are ordinary ones: no input column is called         *)
(* priority, priority_df2 or _merge, and none ends in _df2, so pd.merge    *)
(* never meets a name clash.                                               *)

\* column layouts of the target: complete (with a column x the source may
\* share and a column y the source never has), reordered, and one layout per
\* missing required column
TargetLayouts ==
    { <<"ip", "computer_name", "value", "x", "y">>,
      <<"value", "y", "computer_name", "ip">>,
      <<"ip", "computer_name", "x">>,
      <<"ip", "value", "x">>,
      <<"computer_name", "value">> }

\* column layouts of the source: z is a column the target never has
SourceLayouts ==
    { <<"ip", "computer_name", "value", "x">>,
      <<"z", "value", "x", "computer_name", "ip">>,
      <<"ip", "computer_name", "x">>,
      <<"ip", "value">>,
      <<"computer_name", "value", "x">> }

\* keys: two share the ip, two share the computer name
TargetKeys == { <<"10.0.0.1", "PC-1">>, <<"10.0.0.1", "PC-2">> }
SourceKeys == { <<"10.0.0.1", "PC-1">>, <<"10.0.0.2", "PC-1">> }

\* value-attribute entries: an unranked one and ranks 1 and 4 in the target;
\* rank 1 (capitalised) and rank 5 in the source
unranked == <<"n", "/", "a">>
Pusto == <<"P", "u", "s", "t", "o">>
TargetValues == { unranked, pusto, ochen_vazhno }
SourceValues == { Pusto, vazhno }

\* the content of every other column tells where a cell comes from
TargetOther == "t"
SourceOther == "s"

MkRow(layout, key, value, other) ==
    [c \in Range(layout) |->
        IF c = ip_col THEN key[1]
        ELSE IF c = computer_name_col THEN key[2]
        ELSE IF c = value_col THEN value
        ELSE other]

TargetRowsOf(layout) ==
    { MkRow(layout, k, v, TargetOther) : k \in TargetKeys, v \in TargetValues }

SourceRowsOf(layout) ==
    { MkRow(layout, k, v, SourceOther) : k \in SourceKeys, v \in SourceValues }

SeqsUpTo(S, n) == UNION { [1..k -> S] : k \in 0..n }

TargetFrames ==
    UNION { { [cols |-> l, rows |-> r] :
                r \in SeqsUpTo(TargetRowsOf(l), MaxTargetRows) } :
            l \in TargetLayouts }

SourceFrames ==
    UNION { { [cols |-> l, rows |-> r] :
                r \in SeqsUpTo(SourceRowsOf(l), MaxSourceRows) } :
            l \in SourceLayouts }

-----------------------------------------------------------------------------
(* The call compare_and_update_dataframe(df1, df2)                         *)

Init ==
    /\ df1 \in TargetFrames
    /\ \/ same = FALSE /\ df2 \in SourceFrames
       \/ same = TRUE /\ df2 = df1
    /\ pc = "validate"
    /\ merged = NoFrame
    /\ df1_updated = NoFrame
    /\ result = NoFrame
    /\ returned = FALSE
    /\ raised = "none"
    /\ df1_entry = df1
    /\ df2_entry = df2
    /\ TransferIdle
    /\ DedupIdle

\* lines 53-55: the schema check; on failure df1 itself is returned
Validate ==
    /\ pc = "validate"
    /\ IF required_present(df1, df2)
       THEN /\ pc' = "annotate_df1"
            /\ UNCHANGED <<result, returned>>
       ELSE /\ pc' = "done"
            /\ result' = df1
            /\ returned' = TRUE
    /\ UNCHANGED <<df1, df2, same, merged, df1_updated, raised, df1_entry,
                   df2_entry>>

\* line 63: df1['priority'] = ...; assigns into the caller's object
AnnotateTarget ==
    /\ pc = "annotate_df1"
    /\ IF set_priority_raises(df1)
       THEN /\ raised' = "KeyError"
            /\ pc' = "done"
            /\ UNCHANGED <<df1, df2>>
       ELSE /\ df1' = set_priority(df1)
            /\ df2' = IF same THEN set_priority(df1) ELSE df2
            /\ pc' = "annotate_df2"
            /\ UNCHANGED raised
    /\ UNCHANGED <<same, merged, df1_updated, result, returned, df1_entry,
                   df2_entry>>

\* line 64: df2['priority'] = ...; assigns into the caller's object
AnnotateSource ==
    /\ pc = "annotate_df2"
    /\ IF set_priority_raises(df2)
       THEN /\ raised' = "KeyError"
            /\ pc' = "done"
            /\ UNCHANGED <<df1, df2>>
       ELSE /\ df2' = set_priority(df2)
            /\ df1' = IF same THEN set_priority(df2) ELSE df1
            /\ pc' = "merge"
            /\ UNCHANGED raised
    /\ UNCHANGED <<same, merged, df1_updated, result, returned, df1_entry,
                   df2_entry>>

\* lines 67-74
Merge ==
    /\ pc = "merge"
    /\ IF merge_raises(df1, df2)
       THEN /\ raised' = "KeyError"
            /\ pc' = "done"
            /\ UNCHANGED merged
       ELSE /\ merged' = merge(df1, df2)
            /\ pc' = "apply"
            /\ UNCHANGED raised
    /\ UNCHANGED <<df1, df2, same, df1_updated, result, returned, df1_entry,
                   df2_entry>>

\* line 86: a KeyError inside update_row leaves the method
Apply ==
    /\ pc = "apply"
    /\ IF apply_raises(merged, df2.cols)
       THEN /\ raised' = "KeyError"
            /\ pc' = "done"
            /\ UNCHANGED df1_updated
       ELSE /\ df1_updated' = apply_update(merged, df2.cols)
            /\ pc' = "project"
            /\ UNCHANGED raised
    /\ UNCHANGED <<df1, df2, same, merged, result, returned, df1_entry,
                   df2_entry>>

\* lines 89-96: drop the working columns, keep df1's columns in df1's order
project(d1, upd) ==
    LET dropped == drop(upd, working_cols)
    IN  select_cols(dropped, existing_cols(d1, dropped))

Return ==
    /\ pc = "project"
    /\ result' = project(df1, df1_updated)
    /\ returned' = TRUE
    /\ pc' = "done"
    /\ UNCHANGED <<df1, df2, same, merged, df1_updated, raised, df1_entry,
                   df2_entry>>

Next ==
    \/ Validate /\ UNCHANGED <<transferVars, dedupVars>>
    \/ AnnotateTarget /\ UNCHANGED <<transferVars, dedupVars>>
    \/ AnnotateSource /\ UNCHANGED <<transferVars, dedupVars>>
    \/ Merge /\ UNCHANGED <<transferVars, dedupVars>>
    \/ Apply /\ UNCHANGED <<transferVars, dedupVars>>
    \/ Return /\ UNCHANGED <<transferVars, dedupVars>>

Spec == Init /\ [][Next]_vars

-----------------------------------------------------------------------------
(* Calls that exercise get_priority: every record has the same key, the    *)
(* value column holds unranked entries, a missing entry, and ranked        *)
(* entries in other letter case or padded with a blank.                    *)

\* str(value) of a missing cell (NaN)
nan_str == <<"n", "a", "n">>
pusto_lead == <<" ", "p", "u", "s", "t", "o">>
pusto_trail == <<"p", "u", "s", "t", "o", " ">>
VAZHNO == <<"V", "A", "Z", "H", "N", "O">>

RankKey == <<"10.0.0.1", "PC-1">>
RankTargetValues == { unranked, nan_str, pusto, pusto_lead, VAZHNO }
RankSourceValues == { unranked, Pusto, pusto_trail, vazhno }

RankTargetLayout == <<"ip", "computer_name", "value", "x">>
RankSourceLayouts ==
    { <<"ip", "computer_name", "value", "x">>,
      <<"z", "value", "x", "computer_name", "ip">> }

RankTargetFrames ==
    { [cols |-> RankTargetLayout, rows |-> r] :
        r \in SeqsUpTo({ MkRow(RankTargetLayout, RankKey, v, TargetOther) :
                           v \in RankTargetValues }, MaxTargetRows) }

RankSourceFrames ==
    UNION { { [cols |-> l, rows |-> r] :
                r \in SeqsUpTo({ MkRow(l, RankKey, v, SourceOther) :
                                   v \in RankSourceValues }, MaxSourceRows) } :
            l \in RankSourceLayouts }

InitRank ==
    /\ df1 \in RankTargetFrames
    /\ df2 \in RankSourceFrames
    /\ same = FALSE
    /\ pc = "validate"
    /\ merged = NoFrame
    /\ df1_updated = NoFrame
    /\ result = NoFrame
    /\ returned = FALSE
    /\ raised = "none"
    /\ df1_entry = df1
    /\ df2_entry = df2
    /\ TransferIdle
    /\ DedupIdle

SpecRank == InitRank /\ [][Next]_vars

-----------------------------------------------------------------------------
(* FTPtoSMBTransfer.transfer_files (src/e.py).  One call on a freshly      *)
(* built object is followed statement by statement; tpc is the position.   *)
(* What the FTP server, the SMB server and the local disk answer is the    *)
(* environment's choice: every call of a library may succeed or raise.     *)

MaxFiles == 2

\* the names in the FTP source directory
FileNames == 1..MaxFiles

NoRepeat(s) == \A i, j \in 1..Len(s) : s[i] = s[j] => i = j

\* the directory listings explored
Listings == {s \in SeqsUpTo(FileNames, MaxFiles) : NoRepeat(s)}

\* FTPtoSMBTransfer(...): __init__ leaves self.ftp and self.conn at None
InitTransfer ==
    /\ tpc = "connect_ftp"
    /\ delete_ftp_after_transfer \in BOOLEAN
    /\ ftp = "none"
    /\ conn = "none"
    /\ files = <<>>
    /\ file_idx = 0
    /\ server_listing \in Listings
    /\ ftp_files = Range(server_listing)
    /\ downloaded = {}
    /\ smb_files = {}
    /\ upload_failed = {}
    /\ quit_calls = 0
    /\ close_calls = 0
    /\ df1 = NoFrame /\ df2 = NoFrame /\ same = FALSE /\ pc = "idle"
    /\ merged = NoFrame /\ df1_updated = NoFrame /\ result = NoFrame
    /\ returned = FALSE /\ raised = "none"
    /\ df1_entry = NoFrame /\ df2_entry = NoFrame
    /\ DedupIdle

filename == files[file_idx]

\* the for statement takes the next filename, or the try block ends
next_file ==
    IF file_idx < Len(files)
    THEN tpc' = "mdtm" /\ file_idx' = file_idx + 1
    ELSE tpc' = "finally_ftp" /\ UNCHANGED file_idx

\* if not self.connect_ftp(): return
ConnectFtp ==
    /\ tpc = "connect_ftp"
    /\ \E outcome \in {"refused", "login_failed", "cwd_failed", "ok"} :
          /\ ftp' = IF outcome = "refused" THEN "none" ELSE "open"
          /\ tpc' = IF outcome = "ok" THEN "connect_smb" ELSE "done"
    /\ UNCHANGED <<delete_ftp_after_transfer, conn, files, file_idx,
                   server_listing, ftp_files, downloaded, smb_files,
                   upload_failed, quit_calls, close_calls>>
    /\ UNCHANGED <<vars, dedupVars>>

\* if not self.connect_smb(): ...
ConnectSmb ==
    /\ tpc = "connect_smb"
    /\ \E outcome \in {"unresolved", "connect_false", "connect_raised", "ok"} :
          /\ conn' = CASE outcome = "unresolved" -> "none"
                       [] outcome = "ok" -> "connected"
                       [] OTHER -> "created"
          /\ tpc' = IF outcome = "ok" THEN "nlst" ELSE "quit_no_smb"
    /\ UNCHANGED <<delete_ftp_after_transfer, ftp, files, file_idx,
                   server_listing, ftp_files, downloaded, smb_files,
                   upload_failed, quit_calls, close_calls>>
    /\ UNCHANGED <<vars, dedupVars>>

\* self.ftp.quit(): QUIT is sent and the socket closed, or sending raises
\* and the socket stays as it is
quit(ok) ==
    /\ quit_calls' = quit_calls + 1
    /\ ftp' = IF ok THEN "closed" ELSE ftp

\* ... self.ftp.quit(); return
QuitNoSmb ==
    /\ tpc = "quit_no_smb"
    /\ \E ok \in BOOLEAN : quit(ok)
    /\ tpc' = "done"
    /\ UNCHANGED <<delete_ftp_after_transfer, conn, files, file_idx,
                   server_listing, ftp_files, downloaded, smb_files,
                   upload_failed, close_calls>>
    /\ UNCHANGED <<vars, dedupVars>>

\* files = self.ftp.nlst(), and the for statement is entered
Nlst ==
    /\ tpc = "nlst"
    /\ \E ok \in BOOLEAN :
          IF ok
          THEN /\ files' = server_listing
               /\ IF server_listing # <<>>
                  THEN tpc' = "mdtm" /\ file_idx' = 1
                  ELSE tpc' = "finally_ftp" /\ UNCHANGED file_idx
          ELSE tpc' = "finally_ftp" /\ UNCHANGED <<files, file_idx>>
    /\ UNCHANGED <<delete_ftp_after_transfer, ftp, conn, server_listing,
                   ftp_files, downloaded, smb_files, upload_failed,
                   quit_calls, close_calls>>
    /\ UNCHANGED <<vars, dedupVars>>

\* self.ftp.sendcmd('MDTM ...'): a reply, error_perm 550, or another error
Mdtm ==
    /\ tpc = "mdtm"
    /\ \E outcome \in {"file", "not_a_file", "error"} :
          CASE outcome = "file" -> tpc' = "download" /\ UNCHANGED file_idx
            [] outcome = "not_a_file" -> next_file
            [] OTHER -> tpc' = "finally_ftp" /\ UNCHANGED file_idx
    /\ UNCHANGED <<delete_ftp_after_transfer, ftp, conn, files,
                   server_listing, ftp_files, downloaded, smb_files,
                   upload_failed, quit_calls, close_calls>>
    /\ UNCHANGED <<vars, dedupVars>>

\* open(local_filepath, 'wb') and self.ftp.retrbinary(...)
Download ==
    /\ tpc = "download"
    /\ \E ok \in BOOLEAN :
          IF ok
          THEN /\ downloaded' = downloaded \cup {filename}
               /\ tpc' = "upload"
               /\ UNCHANGED file_idx
          ELSE next_file /\ UNCHANGED downloaded
    /\ UNCHANGED <<delete_ftp_after_transfer, ftp, conn, files,
                   server_listing, ftp_files, smb_files, upload_failed,
                   quit_calls, close_calls>>
    /\ UNCHANGED <<vars, dedupVars>>

\* open(local_filepath, 'rb') and self.conn.storeFile(...): both except
\* clauses log the error and go on with the statement after the try
Upload ==
    /\ tpc = "upload"
    /\ \E outcome \in {"stored", "open_failed", "store_failed"} :
          IF outcome = "stored"
          THEN /\ smb_files' = smb_files \cup {filename}
               /\ UNCHANGED upload_failed
          ELSE /\ upload_failed' = upload_failed \cup {filename}
               /\ UNCHANGED smb_files
    /\ tpc' = "delete"
    /\ UNCHANGED <<delete_ftp_after_transfer, ftp, conn, files, file_idx,
                   server_listing, ftp_files, downloaded, quit_calls,
                   close_calls>>
    /\ UNCHANGED <<vars, dedupVars>>

\* if self.delete_ftp_after_transfer: self.ftp.delete(filename)
Delete ==
    /\ tpc = "delete"
    /\ IF delete_ftp_after_transfer
       THEN \E ok \in BOOLEAN :
               ftp_files' = IF ok THEN ftp_files \ {filename} ELSE ftp_files
       ELSE UNCHANGED ftp_files
    /\ tpc' = "cleanup"
    /\ UNCHANGED <<delete_ftp_after_transfer, ftp, conn, files, file_idx,
                   server_listing, downloaded, smb_files, upload_failed,
                   quit_calls, close_calls>>
    /\ UNCHANGED <<vars, dedupVars>>

\* os.remove(local_filepath); an OSError is logged.  Either way the loop
\* goes on.
Cleanup ==
    /\ tpc = "cleanup"
    /\ next_file
    /\ UNCHANGED <<delete_ftp_after_transfer, ftp, conn, files,
                   server_listing, ftp_files, downloaded, smb_files,
                   upload_failed, quit_calls, close_calls>>
    /\ UNCHANGED <<vars, dedupVars>>

\* finally: if self.ftp: self.ftp.quit().  When quit raises, the exception
\* leaves transfer_files and the rest of the finally block is not run.
FinallyFtp ==
    /\ tpc = "finally_ftp"
    /\ IF ftp # "none"
       THEN \E ok \in BOOLEAN :
               /\ quit(ok)
               /\ tpc' = IF ok THEN "finally_smb" ELSE "done"
       ELSE tpc' = "finally_smb" /\ UNCHANGED <<ftp, quit_calls>>
    /\ UNCHANGED <<delete_ftp_after_transfer, conn, files, file_idx,
                   server_listing, ftp_files, downloaded, smb_files,
                   upload_failed, close_calls>>
    /\ UNCHANGED <<vars, dedupVars>>

\* finally: if self.conn: self.conn.close()
FinallySmb ==
    /\ tpc = "finally_smb"
    /\ IF conn # "none"
       THEN conn' = "closed" /\ close_calls' = close_calls + 1
       ELSE UNCHANGED <<conn, close_calls>>
    /\ tpc' = "done"
    /\ UNCHANGED <<delete_ftp_after_transfer, ftp, files, file_idx,
                   server_listing, ftp_files, downloaded, smb_files,
                   upload_failed, quit_calls>>
    /\ UNCHANGED <<vars, dedupVars>>

NextTransfer ==
    \/ ConnectFtp \/ ConnectSmb \/ QuitNoSmb \/ Nlst \/ Mdtm \/ Download
    \/ Upload \/ Delete \/ Cleanup \/ FinallyFtp \/ FinallySmb

SpecTransfer == InitTransfer /\ [][NextTransfer]_<<vars, transferVars, dedupVars>>

-----------------------------------------------------------------------------
(* hash.py: find_duplicate_files(root_dir) followed by                     *)
(* delete_duplicate_files(file_hashes), as the __main__ block calls them.  *)
(* The paths under root_dir are regular files, numbered in the order       *)
(* os.walk yields them; nothing else touches the directory meanwhile.      *)

MaxPaths == 3

\* what a file may hold: nothing, or the four bytes "data"
Contents == {"", "data"}

\* hashlib.sha256(...).hexdigest(), the first eight digits of it
sha256(c) == IF c = "" THEN "e3b0c442" ELSE "3a6eb079"

\* the None that calculate_file_hash returns when reading fails
None == "None"

\* calculate_file_hash(filepath): the digest, or None when open/read raises
calculate_file_hash(filepath, readable) ==
    IF readable THEN sha256(content[filepath]) ELSE None

\* the directory trees explored
InitDedup ==
    /\ hpc = "walk"
    /\ \E n \in 0..MaxPaths :
          /\ on_disk = 1..n
          /\ content \in [1..n -> Contents]
    /\ file_hashes = <<>>
    /\ hash_order = <<>>
    /\ walk_idx = 1
    /\ group_idx = 0
    /\ dup_idx = 0
    /\ remove_failed = {}
    /\ df1 = NoFrame /\ df2 = NoFrame /\ same = FALSE /\ pc = "idle"
    /\ merged = NoFrame /\ df1_updated = NoFrame /\ result = NoFrame
    /\ returned = FALSE /\ raised = "none"
    /\ df1_entry = NoFrame /\ df2_entry = NoFrame
    /\ TransferIdle

\* file_hashes after the if/else of lines 45-48
record_hash(d, file_hash, filepath) ==
    [h \in DOMAIN d \cup {file_hash} |->
        IF h = file_hash
        THEN IF h \in DOMAIN d THEN Append(d[h], filepath) ELSE <<filepath>>
        ELSE d[h]]

\* one turn of the loops of find_duplicate_files
HashFile ==
    /\ hpc = "walk"
    /\ walk_idx <= Len(content)
    /\ \E readable \in BOOLEAN :
          LET filepath == walk_idx
              file_hash == calculate_file_hash(filepath, readable)
          IN IF file_hash # None
             THEN /\ file_hashes' = record_hash(file_hashes, file_hash, filepath)
                  /\ hash_order' = IF file_hash \in DOMAIN file_hashes
                                   THEN hash_order
                                   ELSE Append(hash_order, file_hash)
             ELSE UNCHANGED <<file_hashes, hash_order>>
    /\ walk_idx' = walk_idx + 1
    /\ UNCHANGED <<hpc, content, on_disk, group_idx, dup_idx, remove_failed>>
    /\ UNCHANGED <<vars, transferVars>>

\* return file_hashes, and delete_duplicate_files(file_hashes) is entered
ReturnHashes ==
    /\ hpc = "walk"
    /\ walk_idx > Len(content)
    /\ hpc' = "delete"
    /\ group_idx' = 1
    /\ dup_idx' = 1
    /\ UNCHANGED <<content, on_disk, file_hashes, hash_order, walk_idx,
                   remove_failed>>
    /\ UNCHANGED <<vars, transferVars>>

\* the item of file_hashes.items() the outer loop is at
filepaths == file_hashes[hash_order[group_idx]]

\* if len(filepaths) > 1
has_duplicates(paths) == Len(paths) > 1

\* a variant that removes the first path too
duplicates_of_all(paths) == paths

\* filepaths[1:]
duplicates_of(paths) == SubSeq(paths, 2, Len(paths))

\* one turn of the inner loop: os.remove(duplicate_file), or its exception
RemoveDuplicate ==
    /\ hpc = "delete"
    /\ group_idx <= Len(hash_order)
    /\ has_duplicates(filepaths)
    /\ dup_idx <= Len(duplicates_of(filepaths))
    /\ LET duplicate_file == duplicates_of(filepaths)[dup_idx]
       IN \E ok \in BOOLEAN :
             IF ok /\ duplicate_file \in on_disk
             THEN /\ on_disk' = on_disk \ {duplicate_file}
                  /\ UNCHANGED remove_failed
             ELSE /\ remove_failed' = remove_failed \cup {duplicate_file}
                  /\ UNCHANGED on_disk
    /\ dup_idx' = dup_idx + 1
    /\ UNCHANGED <<hpc, content, file_hashes, hash_order, walk_idx, group_idx>>
    /\ UNCHANGED <<vars, transferVars>>

\* the outer loop takes the next item: the group has one entry, or its
\* inner loop is done
NextGroup ==
    /\ hpc = "delete"
    /\ group_idx <= Len(hash_order)
    /\ \/ ~has_duplicates(filepaths)
       \/ dup_idx > Len(duplicates_of(filepaths))
    /\ group_idx' = group_idx + 1
    /\ dup_idx' = 1
    /\ UNCHANGED <<hpc, content, on_disk, file_hashes, hash_order, walk_idx,
                   remove_failed>>
    /\ UNCHANGED <<vars, transferVars>>

\* the outer loop is done and delete_duplicate_files returns
Finish ==
    /\ hpc = "delete"
    /\ group_idx > Len(hash_order)
    /\ hpc' = "done"
    /\ UNCHANGED <<content, on_disk, file_hashes, hash_order, walk_idx,
                   group_idx, dup_idx, remove_failed>>
    /\ UNCHANGED <<vars, transferVars>>

NextDedup == HashFile \/ ReturnHashes \/ RemoveDuplicate \/ NextGroup \/ Finish

SpecDedup == InitDedup /\ [][NextDedup]_<<vars, transferVars, dedupVars>>

-----------------------------------------------------------------------------
(* Vocabulary of the properties: everything is stated about the frames as  *)
(* they were passed in (df1_entry, df2_entry) and the returned frame.      *)

RequiredCols == {ip_col, computer_name_col, value_col}

\* both inputs have the two key columns and the value column
EntryValid ==
    \A c \in RequiredCols :
        c \in Range(df1_entry.cols) /\ c \in Range(df2_entry.cols)

TargetCols == Range(df1_entry.cols)
SourceCols == Range(df2_entry.cols)
NTarget == Len(df1_entry.rows)
TargetRow(i) == df1_entry.rows[i]

SameKey(t, s) ==
    t[ip_col] = s[ip_col] /\ t[computer_name_col] = s[computer_name_col]

\* the source records with the key of target record i, in source order
PartnersOf(i) == SelectSeq(df2_entry.rows, LAMBDA s : SameKey(TargetRow(i), s))

Priority(r) == get_priority(r[value_col])

\* the output holds one record per (target record, partner) pair and one for
\* a target record without partner, in target order
BlockLen(i) == IF PartnersOf(i) = <<>> THEN 1 ELSE Len(PartnersOf(i))

RECURSIVE OutPos(_)
OutPos(i) == IF i = 1 THEN 1 ELSE OutPos(i - 1) + BlockLen(i - 1)

HasOutRow(i, j) == OutPos(i) + j - 1 \in 1..Len(result.rows)
OutRow(i, j) == result.rows[OutPos(i) + j - 1]

\* t with every non-key column that the source has taken from s
Replaced(t, s) ==
    [c \in TargetCols |->
        IF c \in {ip_col, computer_name_col} THEN t[c]
        ELSE IF c \in SourceCols THEN s[c]
        ELSE t[c]]

Returned == pc = "done" /\ returned

-----------------------------------------------------------------------------
\* C1: when a key column or the value column is missing from the target or
\* from the source, the call raises nothing and returns the target exactly as
\* it was passed in; the caller's target object is not changed either.
Thm_C1 ==
    (pc = "done" /\ ~EntryValid) =>
        /\ raised = "none"
        /\ returned
        /\ result = df1_entry
        /\ df1 = df1_entry

\* a call that ended on a non-empty target whose source lacks the value column
Wit_C1 ==
    /\ pc = "done"
    /\ returned
    /\ value_col \in TargetCols
    /\ value_col \notin SourceCols
    /\ {ip_col, computer_name_col} \subseteq (TargetCols \cap SourceCols)
    /\ NTarget > 0
    /\ Len(df2_entry.rows) > 0

\* C2 (as stated): for inputs that pass validation the output has as many
\* records as the target, also when several source records carry the key of
\* one target record.
Cex_C2 ==
    (Returned /\ EntryValid) => Len(result.rows) = NTarget

\* C3 (as stated): for every target and source the call yields an output
\* whose columns are the target's columns in the target's order, also when
\* the source has columns the target lacks and a replacement takes place.
Cex_C3 ==
    pc = "done" => (returned /\ result.cols = df1_entry.cols)

\* C4: a target record with exactly one partner of strictly higher priority
\* comes out with the partner's value in every non-key column the source
\* has, its own key, and its own value in the columns only the target has.
Thm_C4 ==
    (Returned /\ EntryValid) =>
        \A i \in 1..NTarget :
            LET p == PartnersOf(i)
            IN  (Len(p) = 1 /\ Priority(p[1]) > Priority(TargetRow(i))) =>
                    /\ HasOutRow(i, 1)
                    /\ OutRow(i, 1) = Replaced(TargetRow(i), p[1])

\* a returned call that replaced a record having a shared column x and a
\* target-only column y
Wit_C4 ==
    /\ Returned
    /\ EntryValid
    /\ {"x", "y"} \subseteq TargetCols
    /\ "x" \in SourceCols
    /\ \E i \in 1..NTarget :
          /\ Len(PartnersOf(i)) = 1
          /\ Priority(PartnersOf(i)[1]) > Priority(TargetRow(i))
          /\ HasOutRow(i, 1)
          /\ OutRow(i, 1)["x"] = SourceOther
          /\ OutRow(i, 1)["y"] = TargetOther
          /\ OutRow(i, 1)[value_col] = vazhno

\* C5: for a partner whose priority is lower than or equal to the target
\* record's, the output record of that pair equals the target record in
\* every column.
Thm_C5 ==
    (Returned /\ EntryValid) =>
        \A i \in 1..NTarget :
            \A j \in 1..Len(PartnersOf(i)) :
                Priority(PartnersOf(i)[j]) <= Priority(TargetRow(i)) =>
                    /\ HasOutRow(i, j)
                    /\ OutRow(i, j) = TargetRow(i)

\* a returned call with a tie (rank 1 against rank 1, written differently)
\* and one with a strictly lower partner
Wit_C5 ==
    /\ Returned
    /\ EntryValid
    /\ "x" \in (TargetCols \cap SourceCols)
    /\ \E i \in 1..NTarget :
          /\ PartnersOf(i) # <<>>
          /\ Priority(PartnersOf(i)[1]) = Priority(TargetRow(i))
          /\ PartnersOf(i)[1][value_col] # TargetRow(i)[value_col]
    /\ \E i \in 1..NTarget :
          /\ PartnersOf(i) # <<>>
          /\ Priority(PartnersOf(i)[1]) < Priority(TargetRow(i))

\* C6: a target record without partner is in the output once, unchanged, at
\* its place among the records that come from the other target records.
Thm_C6 ==
    (Returned /\ EntryValid) =>
        /\ Len(result.rows) = OutPos(NTarget + 1) - 1
        /\ \A i \in 1..NTarget :
              /\ \A j \in 1..BlockLen(i) :
                    HasOutRow(i, j) /\ SameKey(OutRow(i, j), TargetRow(i))
              /\ PartnersOf(i) = <<>> =>
                    /\ BlockLen(i) = 1
                    /\ OutRow(i, 1) = TargetRow(i)

\* a returned call in which a record without partner follows a record that
\* has one, the source holding a record with the same ip and another name
Wit_C6 ==
    /\ Returned
    /\ EntryValid
    /\ \E i \in 2..NTarget :
          /\ PartnersOf(i) = <<>>
          /\ PartnersOf(i - 1) # <<>>
          /\ OutRow(i, 1) = TargetRow(i)
          /\ \E s \in 1..Len(df2_entry.rows) :
                df2_entry.rows[s][ip_col] = TargetRow(i)[ip_col]

RECURSIVE Scan(_, _, _)
\* the running record of C7: the partners are compared in source order with
\* the record as left by the replacements made so far
Scan(r, p, j) ==
    IF j > Len(p) THEN r
    ELSE IF Priority(p[j]) > Priority(r) THEN Scan(Replaced(r, p[j]), p, j + 1)
         ELSE Scan(r, p, j + 1)

\* C7 (as stated): the output holds one record per target record, the
\* result of the cumulative scan of its partners in source order.
Cex_C7 ==
    (Returned /\ EntryValid) =>
        result = [cols |-> df1_entry.cols,
                  rows |-> [i \in 1..NTarget |->
                              Scan(TargetRow(i), PartnersOf(i), 1)]]

\* C8 (as stated): after any call both caller-supplied objects have the
\* columns, rows and values they had before the call.
Cex_C8 ==
    pc = "done" => (df1 = df1_entry /\ df2 = df2_entry)

\* C9 (as stated): reconciling a record set that has the key and value
\* columns with itself returns a record set equal to it.
Cex_C9 ==
    (pc = "done" /\ same /\ EntryValid) =>
        (returned /\ result.cols = df1_entry.cols
                  /\ Len(result.rows) = NTarget
                  /\ \A i \in 1..NTarget : result.rows[i] = TargetRow(i))

\* C10 (as stated): every call returns a record set and raises nothing.
Cex_C10 ==
    pc = "done" => (raised = "none" /\ returned)

-----------------------------------------------------------------------------
(* Ranking of the value-attribute entries                                  *)

\* the entry, lower-cased, is no key of the default ranking
Unranked(v) == str_lower(v) \notin DOMAIN PRIORITY_MAP

\* the entry, lower-cased, is a key of the default ranking with this rank
HasRank(v, n) ==
    str_lower(v) \in DOMAIN PRIORITY_MAP /\ PRIORITY_MAP[str_lower(v)] = n

\* the rows of both annotated frames
AnnotatedRows ==
    {df1.rows[i] : i \in 1..Len(df1.rows)}
    \cup {df2.rows[i] : i \in 1..Len(df2.rows)}

Annotated == pc \in {"merge", "apply", "project"} \/ (Returned /\ EntryValid)

\* C11: an entry absent from the ranking (a missing one included) scores 0,
\* below every category of the default ranking, and raises nothing; an
\* unranked target record with a partner of rank 1 is replaced by it, an
\* unranked partner replaces no target record, unranked against unranked
\* included.
Thm_C11 ==
    /\ \A k \in DOMAIN PRIORITY_MAP : PRIORITY_MAP[k] >= 1
    /\ Annotated =>
          \A r \in AnnotatedRows : Unranked(r[value_col]) => r["priority"] = 0
    /\ (pc = "done" /\ raised # "none") => \E c \in SourceCols : c \notin TargetCols
    /\ Returned =>
          \A i \in 1..NTarget :
              \A j \in 1..Len(PartnersOf(i)) :
                  LET t == TargetRow(i)
                      s == PartnersOf(i)[j]
                  IN  /\ (Unranked(t[value_col]) /\ HasRank(s[value_col], 1)) =>
                            /\ HasOutRow(i, j)
                            /\ OutRow(i, j) = Replaced(t, s)
                      /\ Unranked(s[value_col]) =>
                            /\ HasOutRow(i, j)
                            /\ OutRow(i, j) = t

\* a returned call with an unranked target record replaced by a rank-1
\* partner, a missing entry met by an unranked partner, and a ranked target
\* record met by an unranked partner
Wit_C11 ==
    /\ Returned
    /\ \E i \in 1..NTarget :
          \E j \in 1..Len(PartnersOf(i)) :
              /\ TargetRow(i)[value_col] = unranked
              /\ PartnersOf(i)[j][value_col] = Pusto
              /\ HasOutRow(i, j)
              /\ OutRow(i, j)[value_col] = Pusto
              /\ OutRow(i, j)["x"] = SourceOther
    /\ \E i \in 1..NTarget :
          \E j \in 1..Len(PartnersOf(i)) :
              /\ TargetRow(i)[value_col] = nan_str
              /\ PartnersOf(i)[j][value_col] = unranked
              /\ HasOutRow(i, j)
              /\ OutRow(i, j) = TargetRow(i)

\* the score the ranking gives a normalized entry, 0 when it has none
Ranking(k) == IF k \in DOMAIN PRIORITY_MAP THEN PRIORITY_MAP[k] ELSE 0

RECURSIVE TrimLeft(_)
TrimLeft(v) == IF v # <<>> /\ Head(v) = " " THEN TrimLeft(Tail(v)) ELSE v

RECURSIVE TrimRight(_)
TrimRight(v) ==
    IF v # <<>> /\ v[Len(v)] = " " THEN TrimRight(SubSeq(v, 1, Len(v) - 1))
    ELSE v

\* lower-cased and trimmed
Normalize(v) == TrimRight(TrimLeft(str_lower(v)))

\* C12 (as stated): the score of every record, target or source, is the
\* ranking of its entry lower-cased and trimmed, so entries that differ only
\* in letter case or in leading or trailing blanks score the same.
Cex_C12 ==
    Annotated =>
        /\ \A r \in AnnotatedRows :
              r["priority"] = Ranking(Normalize(r[value_col]))
        /\ \A r1, r2 \in AnnotatedRows :
              Normalize(r1[value_col]) = Normalize(r2[value_col]) =>
                  r1["priority"] = r2["priority"]

\* C12 (amended): the score of every record, target or source, is the
\* ranking of its entry lower-cased, blanks kept: entries that differ only
\* in letter case score the same.
Thm_C12 ==
    Annotated =>
        /\ \A r \in AnnotatedRows :
              r["priority"] = Ranking(str_lower(r[value_col]))
        /\ \A r1, r2 \in AnnotatedRows :
              str_lower(r1[value_col]) = str_lower(r2[value_col]) =>
                  r1["priority"] = r2["priority"]

\* both frames annotated: entries written in different letter case score
\* alike, in the target and in the source, and a padded entry is among them
Wit_C12 ==
    /\ Annotated
    /\ \E r1, r2 \in AnnotatedRows :
          /\ r1[value_col] = pusto /\ r2[value_col] = Pusto
          /\ r1["priority"] = 1 /\ r2["priority"] = 1
    /\ \E r1, r2 \in AnnotatedRows :
          /\ r1[value_col] = VAZHNO /\ r2[value_col] = vazhno
          /\ r1["priority"] = 5 /\ r2["priority"] = 5
          /\ r1["x"] = TargetOther /\ r2["x"] = SourceOther


-----------------------------------------------------------------------------
(* Deleting from the FTP server (src/e.py)                                 *)

\* the files transfer_files has deleted from the FTP server so far
DeletedFromFtp == Range(server_listing) \ ftp_files

\* C13: with delete_ftp_after_transfer set, a file is deleted from the FTP
\* server only after it was downloaded and stored on the SMB share, so a
\* file whose upload failed is still on the FTP server; without the flag no
\* FTP file is ever deleted.
Cex_C13 ==
    /\ \A f \in DeletedFromFtp :
          /\ delete_ftp_after_transfer
          /\ f \in downloaded
          /\ f \in smb_files
    /\ \A f \in upload_failed : f \in ftp_files
    /\ ~delete_ftp_after_transfer => DeletedFromFtp = {}

-----------------------------------------------------------------------------
(* Removing duplicates (src/hash.py)                                       *)

\* the paths that were under root_dir and are gone
Removed == DOMAIN content \ on_disk

\* the files on disk whose content has digest h
CopiesOnDisk(h) == {p \in on_disk : sha256(content[p]) = h}

\* the paths recorded under digest h that are on disk
RecordedOnDisk(h) == Range(file_hashes[h]) \cap on_disk

\* what is said of the lists: the first path of a list is never removed, a
\* removed path is a later entry of a list with more than one entry, and
\* when delete_duplicate_files has returned every later entry is gone
\* unless its removal failed
KeepsFirstRemovesRest ==
    /\ \A h \in DOMAIN file_hashes : file_hashes[h][1] \in on_disk
    /\ \A p \in Removed :
          \E h \in DOMAIN file_hashes :
             /\ Len(file_hashes[h]) > 1
             /\ \E i \in 2..Len(file_hashes[h]) : file_hashes[h][i] = p
    /\ hpc = "done" =>
          \A h \in DOMAIN file_hashes : \A i \in 2..Len(file_hashes[h]) :
             \/ file_hashes[h][i] \notin on_disk
             \/ file_hashes[h][i] \in remove_failed

\* C14 as stated: the first path of every list is kept and the others are
\* removed, so after the run at least one file of every digest found is on
\* disk, and exactly one when no removal failed.
Cex_C14 ==
    /\ KeepsFirstRemovesRest
    /\ hpc = "done" =>
          \A h \in DOMAIN file_hashes :
             /\ CopiesOnDisk(h) # {}
             /\ remove_failed = {} => Cardinality(CopiesOnDisk(h)) = 1

\* C14: the first path of every list is kept and the others are removed,
\* so after the run at least one file of every digest found is on disk,
\* and when no removal failed exactly one of the paths recorded under the
\* digest; a file that could not be read was not recorded and stays.
Thm_C14 ==
    /\ KeepsFirstRemovesRest
    /\ hpc = "done" =>
          \A h \in DOMAIN file_hashes :
             /\ CopiesOnDisk(h) # {}
             /\ remove_failed = {} => Cardinality(RecordedOnDisk(h)) = 1

\* a run that found a list of several paths and a list of one, and removed
\* without failure
Wit_C14 ==
    /\ hpc = "done"
    /\ remove_failed = {}
    /\ \E h1, h2 \in DOMAIN file_hashes :
          /\ Len(file_hashes[h1]) > 1
          /\ file_hashes[h1][2] \notin on_disk
          /\ Len(file_hashes[h2]) = 1
          /\ file_hashes[h2][1] \in on_disk

-----------------------------------------------------------------------------
(* Closing the connections (src/e.py)                                      *)

\* C15: when transfer_files is left, an FTP session that was created has
\* been quit and an SMB connection that was created has been closed, and
\* neither is closed more than once.
Cex_C15 ==
    /\ quit_calls <= 1
    /\ close_calls <= 1
    /\ tpc = "done" =>
          /\ ftp # "none" => quit_calls = 1
          /\ conn # "none" => close_calls = 1

====
